------------------------------ MODULE Spec2Model ------------------------------
(***************************************************************************)
(* Model of src/src/components/VlyToolbar.tsx: the element picker that a   *)
(* parent frame toggles by message, its hover/click Overlay and the        *)
(* asynchronous capture-and-report sequence started by a selection.        *)
(*                                                                         *)
(* Event handlers run to completion (one action each, the React re-render  *)
(* they schedule included).  The only suspension point is the await of the *)
(* snapshot capture in handleSelect; its continuation is CaptureSettle.    *)
(***************************************************************************)
EXTENDS FiniteSets, Integers, Sequences, TLC

(***************************************************************************)
(* Bounds.                                                                 *)
(***************************************************************************)
MaxClicks == 2      \* non-aborted clicks in one behaviour
MaxClassLen == 3    \* characters of a class attribute given to getDomSelector

(***************************************************************************)
(* JavaScript values.                                                      *)
(***************************************************************************)
Null == "null"
Undefined == "undefined"

\* v !== false in place of !!v
NotFalse(v) == v # "false"

\* !!v, for the JavaScript values the model passes as `enabled`
Truthy(v) == v \notin {"false", "undefined", "null", "0", "''"}

(***************************************************************************)
(* The document: a few page elements and the toolbar's root container.     *)
(* Strings that getDomSelector works on are sequences of characters.       *)
(***************************************************************************)
ToolbarRoot == "toolbar"
PageElements == {"save", "card"}
Elements == PageElements \cup {ToolbarRoot}

\* className of an SVG element: an SVGAnimatedString object, not a string
SvgClassName == <<"[object SVGAnimatedString]">>

ElementAttrs ==
  [e \in Elements |->
     CASE e = "save" -> [id |-> <<"s", "a", "v", "e">>,
                         className |-> <<"b", "t", "n">>,
                         tagName |-> <<"B", "U", "T", "T", "O", "N">>]
       [] e = "card" -> [id |-> <<>>,
                         className |-> <<" ", "a", " ", " ", "b", " ">>,
                         tagName |-> <<"D", "I", "V">>]
       [] OTHER      -> [id |-> <<>>,
                         className |-> <<>>,
                         tagName |-> <<"D", "I", "V">>]]

HIGHLIGHT_CLASS == "vly-toolbar-highlight"

LowerChar(c) ==
  CASE c = "B" -> "b" [] c = "U" -> "u" [] c = "T" -> "t" [] c = "O" -> "o"
    [] c = "N" -> "n" [] c = "D" -> "d" [] c = "I" -> "i" [] c = "V" -> "v"
    [] c = "S" -> "s" [] c = "P" -> "p" [] c = "A" -> "a"
    [] OTHER -> c

\* String.prototype.toLowerCase
ToLowerCase(s) == [i \in 1..Len(s) |-> LowerChar(s[i])]

\* a character matched by \s
IsSpace(c) == c \in {" ", "\t", "\n"}

RECURSIVE TrimStart(_)
TrimStart(s) ==
  IF s # <<>> /\ IsSpace(Head(s)) THEN TrimStart(Tail(s)) ELSE s

RECURSIVE TrimEnd(_)
TrimEnd(s) ==
  IF s # <<>> /\ IsSpace(s[Len(s)]) THEN TrimEnd(SubSeq(s, 1, Len(s) - 1)) ELSE s

\* String.prototype.trim
Trim(s) == TrimEnd(TrimStart(s))

\* s.replace(/\s+/g, "."): every maximal run of whitespace becomes one "."
RECURSIVE ReplaceSpaces(_)
ReplaceSpaces(s) ==
  IF s = <<>> THEN <<>>
  ELSE IF IsSpace(Head(s)) THEN <<".">> \o ReplaceSpaces(TrimStart(s))
  ELSE <<Head(s)>> \o ReplaceSpaces(Tail(s))

IsString(v) == v # SvgClassName

\* a getDomSelector that tests the class attribute before the id
getDomSelectorClassFirst(el) ==
  IF el.className # <<>> /\ IsString(el.className)
       THEN ToLowerCase(el.tagName) \o <<".">>
              \o ReplaceSpaces(Trim(el.className))
  ELSE IF el.id # <<>> THEN <<"#">> \o el.id
  ELSE ToLowerCase(el.tagName)

\* el is the record of the element's id, className and tagName
getDomSelector(el) ==
  IF el.id # <<>> THEN <<"#">> \o el.id
  ELSE IF el.className # <<>> /\ IsString(el.className)
       THEN ToLowerCase(el.tagName) \o <<".">>
              \o ReplaceSpaces(Trim(el.className))
  ELSE ToLowerCase(el.tagName)

\* the strings of at most n characters over the alphabet cs
RECURSIVE StringsUpTo(_, _)
StringsUpTo(cs, n) ==
  IF n = 0 THEN {<<>>}
  ELSE LET shorter == StringsUpTo(cs, n - 1)
       IN  shorter \cup {<<c>> \o w : c \in cs, w \in shorter}

\* the elements getDomSelector is applied to on its own
DomIds == {<<>>, <<"x">>}
DomClassNames == StringsUpTo({" ", "\t", "a", "b"}, MaxClassLen) \cup {SvgClassName}
DomTagNames == {<<"D", "I", "V">>, <<"S", "P", "A", "N">>}
DomElements == [id : DomIds, className : DomClassNames, tagName : DomTagNames]

(***************************************************************************)
(* External collaborators (./getReactComponentHierarchy, @zumer/snapdom).  *)
(***************************************************************************)
getReactComponentHierarchy(el) == <<"Component", el>>
formatReactComponentHierarchy(h) == "in " \o h[1] \o " > " \o h[2]

\* canvas.toDataURL("image/png") of the canvas snapdom renders for el
toDataURL(el) == "data:image/png;base64," \o el

\* how a started capture ends: the promise resolves and toDataURL returns
\* the image, or the try block throws (the promise rejects or toDataURL
\* throws)
Outcomes == {"resolved", "threw"}

(***************************************************************************)
(* Inbound message events.                                                 *)
(***************************************************************************)
SET_SELECTION_MODE == "vly-set-selection-mode"
TOOLBAR_SELECT == "vly-toolbar-select"

EnabledValues == {"true", "false", "undefined", "0", "1"}

\* event.data: null, or an object with a type and an enabled field (a field
\* that is absent reads as undefined)
DataValues ==
  {[kind |-> "null", type |-> Undefined, enabled |-> Undefined],
   [kind |-> "object", type |-> Undefined, enabled |-> "true"]}
  \cup [kind : {"object"}, type : {TOOLBAR_SELECT}, enabled : {"true", "false"}]
  \cup [kind : {"object"}, type : {SET_SELECTION_MODE}, enabled : EnabledValues]

\* the parent frame sends any of them; another window sends the two plain
\* selection-mode commands
MessageEvents ==
  [source : {"parent"}, data : DataValues]
  \cup [source : {"other"},
        data : [kind : {"object"}, type : {SET_SELECTION_MODE},
                enabled : {"true", "false"}]]

VARIABLES
  mounted,         \* the VlyToolbar component is mounted
  listening,       \* handleMessage is registered on window
  styleCount,      \* number of <style id="vly-toolbar-style"> in the document
  toolbarRef,      \* toolbarRef.current
  ignoreList,      \* the memoised ignoreList array
  selectMode,      \* the selectMode state of VlyToolbar
  overlayMounted,  \* an Overlay instance is rendered
  lastHovered,     \* lastHovered.current of the Overlay instance
  highlighted,     \* elements whose classList contains HIGHLIGHT_CLASS
  pending,         \* handleSelect calls suspended at the await
  posted,          \* messages posted to window.parent, in order
  clicks,          \* number of non-aborted clicks so far
  lastEvent,       \* the event handled by the last step and its callbacks
  domEl,           \* the element of a direct getDomSelector call
  domSelector      \* what that call returned (empty before the call)

vars == <<mounted, listening, styleCount, toolbarRef, ignoreList,
          selectMode, overlayMounted, lastHovered, highlighted, pending,
          posted, clicks, lastEvent, domEl, domSelector>>

NoData == [kind |-> "null", type |-> Undefined, enabled |-> Undefined]

\* record of the event a step handled; onHover/onUnhover/onSelect count the
\* callback invocations the handler made
Event(kind, source, data, el, outcome, h, u, s) ==
  [kind |-> kind, source |-> source, data |-> data, el |-> el,
   outcome |-> outcome, onHover |-> h, onUnhover |-> u, onSelect |-> s]

Includes(arr, el) == \E i \in 1..Len(arr) : arr[i] = el

Init ==
  /\ mounted = FALSE
  /\ listening = FALSE
  /\ styleCount = 0
  /\ toolbarRef = Null
  /\ ignoreList = <<>>
  /\ selectMode = FALSE
  /\ overlayMounted = FALSE
  /\ lastHovered = Null
  /\ highlighted = {}
  /\ pending = {}
  /\ posted = <<>>
  /\ clicks = 0
  /\ lastEvent = Event("init", Null, NoData, Null, Null, 0, 0, 0)
  /\ domEl = ElementAttrs[ToolbarRoot]
  /\ domSelector = <<>>


(***************************************************************************)
(* VlyToolbar: mount, unmount, render.                                     *)
(***************************************************************************)
\* an injectHighlightStyle without the getElementById test
injectHighlightStyleAlways(n) == n + 1

\* injectHighlightStyle: the number of style elements after the call
injectHighlightStyle(n) == IF n > 0 THEN n ELSE n + 1

\* the useMemo body that builds ignoreList, given toolbarRef.current
BuildIgnoreList(ref) == IF ref # Null THEN <<ref>> ELSE <<>>

\* a render that mounts the Overlay but never takes it down
RenderNoUnmount(mode) ==
  /\ overlayMounted' = (overlayMounted \/ mode)
  /\ lastHovered' = IF overlayMounted THEN lastHovered ELSE Null

\* the render that follows setSelectMode(mode): the Overlay is rendered iff
\* selectMode; an Overlay that stays mounted keeps its lastHovered ref, a
\* newly mounted one starts from useRef(null), an unmounted one has none
Render(mode) ==
  /\ overlayMounted' = mode
  /\ lastHovered' = IF mode /\ overlayMounted THEN lastHovered ELSE Null

setSelectMode(value) ==
  /\ selectMode' = value
  /\ Render(value)

\* First render and commit of a VlyToolbar instance, then its effect.
\* useState(false) and useRef(null) start fresh; the useMemo body runs during
\* the render, before the commit attaches toolbarRef to the container.
Mount ==
  /\ ~mounted
  /\ mounted' = TRUE
  /\ ignoreList' = BuildIgnoreList(Null)
  /\ toolbarRef' = ToolbarRoot
  /\ setSelectMode(FALSE)
  /\ styleCount' = injectHighlightStyle(styleCount)
  /\ listening' = TRUE
  /\ lastEvent' = Event("mount", Null, NoData, Null, Null, 0, 0, 0)
  /\ UNCHANGED <<highlighted, pending, posted, clicks>>
  /\ UNCHANGED <<domEl, domSelector>>

\* Unmount of the instance: the effect's cleanup removes the listener, the
\* Overlay (if any) goes with it.  The document keeps the style element and
\* any class an element still carries; suspended handleSelect calls go on.
Unmount ==
  /\ mounted
  /\ mounted' = FALSE
  /\ listening' = FALSE
  /\ toolbarRef' = Null
  /\ ignoreList' = <<>>
  /\ setSelectMode(FALSE)
  /\ lastEvent' = Event("unmount", Null, NoData, Null, Null, 0, 0, 0)
  /\ UNCHANGED <<styleCount, highlighted, pending, posted, clicks>>
  /\ UNCHANGED <<domEl, domSelector>>

(***************************************************************************)
(* handleMessage.                                                          *)
(***************************************************************************)
\* event.data && event.data.type === 'vly-set-selection-mode'
Recognized(data) == data.kind = "object" /\ data.type = SET_SELECTION_MODE

\* a handler that does not look at the type tag
handleMessageAnyType(ev) ==
  /\ listening
  /\ setSelectMode(Truthy(ev.data.enabled))
  /\ lastEvent' = Event("message", ev.source, ev.data, Null, Null, 0, 0, 0)
  /\ UNCHANGED <<mounted, listening, styleCount, toolbarRef,
                 ignoreList, highlighted, pending, posted, clicks>>
  /\ UNCHANGED <<domEl, domSelector>>

\* a handler whose disable command also drops the suspended selections
handleMessageCancel(ev) ==
  /\ listening
  /\ IF Recognized(ev.data)
       THEN /\ setSelectMode(Truthy(ev.data.enabled))
            /\ pending' = IF Truthy(ev.data.enabled) THEN pending ELSE {}
       ELSE UNCHANGED <<selectMode, overlayMounted, lastHovered, pending>>
  /\ lastEvent' = Event("message", ev.source, ev.data, Null, Null, 0, 0, 0)
  /\ UNCHANGED <<mounted, listening, styleCount, toolbarRef,
                 ignoreList, highlighted, posted, clicks>>
  /\ UNCHANGED <<domEl, domSelector>>

handleMessage(ev) ==
  /\ listening
  /\ IF Recognized(ev.data)
       THEN setSelectMode(Truthy(ev.data.enabled))
       ELSE UNCHANGED <<selectMode, overlayMounted, lastHovered>>
  /\ lastEvent' = Event("message", ev.source, ev.data, Null, Null, 0, 0, 0)
  /\ UNCHANGED <<mounted, listening, styleCount, toolbarRef,
                 ignoreList, highlighted, pending, posted, clicks>>
  /\ UNCHANGED <<domEl, domSelector>>

(***************************************************************************)
(* Overlay handlers.  el is what document.elementFromPoint returns with    *)
(* the overlay out of hit-testing: an element or null.                     *)
(***************************************************************************)
\* !el || ignoreList.includes(el)
Aborted(el) == el = Null \/ Includes(ignoreList, el)

\* a handler that treats a miss as leaving the hovered element
handleMouseMoveClearOnMiss(el) ==
  /\ overlayMounted
  /\ selectMode
  /\ IF Aborted(el)
       THEN /\ highlighted' = highlighted \ {lastHovered}
            /\ lastHovered' = Null
            /\ lastEvent' = Event("mousemove", Null, NoData, el, Null, 0, 0, 0)
       ELSE IF lastHovered # el
       THEN /\ highlighted' = (highlighted \ {lastHovered}) \cup {el}
            /\ lastHovered' = el
            /\ lastEvent' = Event("mousemove", Null, NoData, el, Null, 1, 0, 0)
       ELSE /\ UNCHANGED <<highlighted, lastHovered>>
            /\ lastEvent' = Event("mousemove", Null, NoData, el, Null, 0, 0, 0)
  /\ UNCHANGED <<mounted, listening, styleCount, toolbarRef,
                 ignoreList, selectMode, overlayMounted, pending, posted,
                 clicks>>
  /\ UNCHANGED <<domEl, domSelector>>

handleMouseMove(el) ==
  /\ overlayMounted
  /\ selectMode
  /\ IF ~Aborted(el) /\ lastHovered # el
       THEN /\ highlighted' = (highlighted \ {lastHovered}) \cup {el}
            /\ lastHovered' = el
            /\ lastEvent' = Event("mousemove", Null, NoData, el, Null, 1, 0, 0)
       ELSE /\ UNCHANGED <<highlighted, lastHovered>>
            /\ lastEvent' = Event("mousemove", Null, NoData, el, Null, 0, 0, 0)
  /\ UNCHANGED <<mounted, listening, styleCount, toolbarRef,
                 ignoreList, selectMode, overlayMounted, pending, posted,
                 clicks>>
  /\ UNCHANGED <<domEl, domSelector>>

handleMouseLeave ==
  /\ overlayMounted
  /\ selectMode
  /\ highlighted' = highlighted \ {lastHovered}
  /\ lastHovered' = Null
  /\ lastEvent' = Event("mouseleave", Null, NoData, Null, Null, 0, 1, 0)
  /\ UNCHANGED <<mounted, listening, styleCount, toolbarRef,
                 ignoreList, selectMode, overlayMounted, pending, posted,
                 clicks>>
  /\ UNCHANGED <<domEl, domSelector>>

\* The outbound message a suspended handleSelect call posts when its capture
\* ends with outcome o.  click, el and outcome are not fields of the message:
\* they record which click and capture it came from.
\* a message whose selector is the one of the most recent selection
OutboundMessageLatest(t, o) ==
  LET u == CHOOSE v \in pending \cup {t} :
             \A w \in pending \cup {t} : w.click <= v.click
  IN  [type |-> TOOLBAR_SELECT,
       selector |-> u.selector,
       reactHierarchy |-> t.hierarchy,
       reactHierarchyFormatted |-> t.formatted,
       image |-> IF o = "resolved" THEN toDataURL(t.el) ELSE Undefined,
       click |-> t.click, el |-> t.el, outcome |-> o]

OutboundMessage(t, o) ==
  [type |-> TOOLBAR_SELECT,
   selector |-> t.selector,
   reactHierarchy |-> t.hierarchy,
   reactHierarchyFormatted |-> t.formatted,
   image |-> IF o = "resolved" THEN toDataURL(t.el) ELSE Undefined,
   click |-> t.click, el |-> t.el, outcome |-> o]

\* handleSelect without its first statement
handleSelectNoIdle(el) ==
  /\ UNCHANGED <<selectMode, overlayMounted, lastHovered>>
  /\ clicks' = clicks + 1
  /\ pending' = pending \cup
       {[click |-> clicks + 1, el |-> el,
         selector |-> getDomSelector(ElementAttrs[el]),
         hierarchy |-> getReactComponentHierarchy(el),
         formatted |->
           formatReactComponentHierarchy(getReactComponentHierarchy(el))]}

\* handleSelect up to its await: leave selection mode, compute the selector
\* and the hierarchy, start the capture and suspend.
handleSelect(el) ==
  /\ setSelectMode(FALSE)
  /\ clicks' = clicks + 1
  /\ pending' = pending \cup
       {[click |-> clicks + 1, el |-> el,
         selector |-> getDomSelector(ElementAttrs[el]),
         hierarchy |-> getReactComponentHierarchy(el),
         formatted |->
           formatReactComponentHierarchy(getReactComponentHierarchy(el))]}

\* a handler that removes the hover marker before it tests the target
handleClickUnmarkFirst(el) ==
  /\ overlayMounted
  /\ highlighted' = highlighted \ {lastHovered}
  /\ IF Aborted(el)
       THEN /\ UNCHANGED <<selectMode, overlayMounted, lastHovered, clicks,
                           pending>>
            /\ lastEvent' = Event("click", Null, NoData, el, Null, 0, 0, 0)
       ELSE /\ clicks < MaxClicks
            /\ handleSelect(el)
            /\ lastEvent' = Event("click", Null, NoData, el, Null, 0, 0, 1)
  /\ UNCHANGED <<mounted, listening, styleCount, toolbarRef,
                 ignoreList, posted>>
  /\ UNCHANGED <<domEl, domSelector>>

handleClick(el) ==
  /\ overlayMounted
  /\ IF Aborted(el)
       THEN /\ UNCHANGED <<highlighted, selectMode, overlayMounted,
                           lastHovered, clicks, pending>>
            /\ lastEvent' = Event("click", Null, NoData, el, Null, 0, 0, 0)
       ELSE /\ clicks < MaxClicks
            /\ highlighted' = highlighted \ {lastHovered}
            /\ handleSelect(el)
            /\ lastEvent' = Event("click", Null, NoData, el, Null, 0, 0, 1)
  /\ UNCHANGED <<mounted, listening, styleCount, toolbarRef,
                 ignoreList, posted>>
  /\ UNCHANGED <<domEl, domSelector>>

\* a continuation that can run again: the suspended call is not consumed
CaptureSettleAgain(t, o) ==
  /\ t \in pending
  /\ Len(posted) <= MaxClicks
  /\ posted' = Append(posted, OutboundMessage(t, o))
  /\ lastEvent' = Event("settle", Null, NoData, t.el, o, 0, 0, 0)
  /\ UNCHANGED <<mounted, listening, styleCount, toolbarRef, ignoreList,
                 selectMode, overlayMounted, lastHovered, highlighted,
                 clicks, pending>>
  /\ UNCHANGED <<domEl, domSelector>>

\* a continuation without the catch: a failed capture ends the call
CaptureSettleNoCatch(t, o) ==
  /\ t \in pending
  /\ pending' = pending \ {t}
  /\ posted' = IF o = "resolved" THEN Append(posted, OutboundMessage(t, o))
                                ELSE posted
  /\ lastEvent' = Event("settle", Null, NoData, t.el, o, 0, 0, 0)
  /\ UNCHANGED <<mounted, listening, styleCount, toolbarRef, ignoreList,
                 selectMode, overlayMounted, lastHovered, highlighted,
                 clicks>>
  /\ UNCHANGED <<domEl, domSelector>>

\* a continuation that turns selection mode back on after posting
CaptureSettleResume(t, o) ==
  /\ t \in pending
  /\ mounted
  /\ pending' = pending \ {t}
  /\ posted' = Append(posted, OutboundMessage(t, o))
  /\ setSelectMode(TRUE)
  /\ lastEvent' = Event("settle", Null, NoData, t.el, o, 0, 0, 0)
  /\ UNCHANGED <<mounted, listening, styleCount, toolbarRef, ignoreList,
                 highlighted, clicks>>
  /\ UNCHANGED <<domEl, domSelector>>

\* The continuation of handleSelect after the await: the capture of task t
\* has ended with outcome o (a failure is caught and logged), and the
\* message is posted to window.parent.
CaptureSettle(t, o) ==
  /\ t \in pending
  /\ pending' = pending \ {t}
  /\ posted' = Append(posted, OutboundMessage(t, o))
  /\ lastEvent' = Event("settle", Null, NoData, t.el, o, 0, 0, 0)
  /\ UNCHANGED <<mounted, listening, styleCount, toolbarRef,
                 ignoreList, selectMode, overlayMounted, lastHovered,
                 highlighted, clicks>>
  /\ UNCHANGED <<domEl, domSelector>>

\* the toolbar's steps; none of them is a direct getDomSelector call
Next ==
  \/ Mount
  \/ Unmount
  \/ \E ev \in MessageEvents : handleMessage(ev)
  \/ \E el \in Elements \cup {Null} : handleMouseMove(el)
  \/ handleMouseLeave
  \/ \E el \in Elements \cup {Null} : handleClick(el)
  \/ \E t \in pending, o \in Outcomes : CaptureSettle(t, o)

Spec == Init /\ [][Next]_vars


(***************************************************************************)
(* getDomSelector on its own: any element of DomElements, one call.        *)
(***************************************************************************)
SelectorInit ==
  /\ mounted = FALSE
  /\ listening = FALSE
  /\ styleCount = 0
  /\ toolbarRef = Null
  /\ ignoreList = <<>>
  /\ selectMode = FALSE
  /\ overlayMounted = FALSE
  /\ lastHovered = Null
  /\ highlighted = {}
  /\ pending = {}
  /\ posted = <<>>
  /\ clicks = 0
  /\ lastEvent = Event("init", Null, NoData, Null, Null, 0, 0, 0)
  /\ domEl \in DomElements
  /\ domSelector = <<>>

SelectorCall ==
  /\ domSelector = <<>>
  /\ domSelector' = getDomSelector(domEl)
  /\ UNCHANGED <<mounted, listening, styleCount, toolbarRef, ignoreList,
                 selectMode, overlayMounted, lastHovered, highlighted,
                 pending, posted, clicks, lastEvent, domEl>>

SelectorNext == SelectorCall

SelectorSpec == SelectorInit /\ [][SelectorNext]_vars

\* Every started capture eventually settles (the assumption under which the
\* completion of a selection is stated).
CaptureOf(c) == \E t \in pending, o \in Outcomes : t.click = c /\ CaptureSettle(t, o)

LiveSpec == Spec /\ \A c \in 1..MaxClicks : WF_vars(CaptureOf(c))

(***************************************************************************)
(* Properties.                                                             *)
(***************************************************************************)
PendingClicks == {t.click : t \in pending}
PostedClicks == {posted[i].click : i \in 1..Len(posted)}
Idle == ~selectMode /\ ~overlayMounted
Picking == selectMode /\ overlayMounted
PointerKinds == {"mousemove", "mouseleave", "click"}

\* C1: the step of a non-aborted click ends in Idle with the Overlay
\* unmounted and posts nothing; every outbound message is posted by a later
\* step, for a click whose handleSelect call was suspended before that step
\* (so its Idle transition has already happened).
C1_IdleBeforePost ==
  [][/\ clicks' # clicks => (Idle' /\ posted' = posted)
     /\ posted' # posted =>
          \E t \in pending : /\ t.click \in 1..clicks
                             /\ Len(posted') = Len(posted) + 1
                             /\ posted'[Len(posted')].click = t.click]_vars

C1_Witness ==
  /\ lastEvent.kind = "settle"
  /\ Len(posted) = 1
  /\ posted[1].click = 1
  /\ Idle

\* C2: the outbound messages never outnumber the non-aborted clicks, each
\* comes from one of those clicks, and no click has two messages.
C2_AtMostOneMessagePerClick ==
  /\ Len(posted) <= clicks
  /\ PostedClicks \subseteq 1..clicks
  /\ \A i, j \in 1..Len(posted) : posted[i].click = posted[j].click => i = j

C2_Witness ==
  /\ clicks = 2
  /\ Len(posted) = 2
  /\ posted[1].click # posted[2].click

\* C3: if every started capture eventually settles, every non-aborted click
\* is eventually followed by its outbound message, whatever messages and
\* pointer events arrive in between.
C3_EveryClickReported ==
  \A c \in 1..MaxClicks : (c \in PendingClicks) ~> (c \in PostedClicks)

\* a selection whose message was posted although the parent had re-enabled
\* Picking while its capture was pending
C3_Witness ==
  /\ lastEvent.kind = "settle"
  /\ PostedClicks = {1}
  /\ pending = {}
  /\ Picking

\* C4: every non-aborted click is either still capturing or has its message
\* posted; a message whose capture failed carries the same type, selector and
\* hierarchy fields as after a successful capture, and no image.
C4_FailedCaptureStillReported ==
  /\ \A c \in 1..clicks : c \in PendingClicks \cup PostedClicks
  /\ \A i \in 1..Len(posted) :
       LET m == posted[i]
           h == getReactComponentHierarchy(m.el)
       IN  /\ m.type = TOOLBAR_SELECT
           /\ m.selector = getDomSelector(ElementAttrs[m.el])
           /\ m.reactHierarchy = h
           /\ m.reactHierarchyFormatted = formatReactComponentHierarchy(h)
           /\ m.outcome = "threw" => m.image = Undefined
           /\ m.outcome = "resolved" => m.image = toDataURL(m.el)

C4_Witness ==
  \E i \in 1..Len(posted) :
    /\ posted[i].outcome = "threw"
    /\ posted[i].image = Undefined
    /\ posted[i].selector = <<"d", "i", "v", ".", "a", ".", "b">>

\* C5: at most one element carries the highlight class.
C5_AtMostOneHighlight == Cardinality(highlighted) <= 1

\* C6: whenever the toolbar is mounted its ignoreList contains the toolbar's
\* root container, which is therefore never highlighted and never the
\* subject of an outbound message.
C6_ToolbarRootIgnored ==
  /\ mounted => Includes(ignoreList, ToolbarRoot)
  /\ ToolbarRoot \notin highlighted
  /\ \A i \in 1..Len(posted) : posted[i].el # ToolbarRoot

\* C7 as stated: while a capture is pending the controller is in Idle and
\* the Overlay is unmounted.
C7_IdleWhileCapturePending == pending # {} => Idle

\* C7 as amended: a non-aborted click leaves the controller in Idle with the
\* Overlay unmounted; while a capture is pending in Idle no pointer event is
\* handled, and only an inbound selection-mode message whose enabled field is
\* truthy ends Idle before the pending captures have settled.
C7_IdleUntilReEnabled ==
  [][/\ clicks' # clicks => (Idle' /\ pending' # {})
     /\ (pending # {} /\ Idle) => lastEvent'.kind \notin PointerKinds
     /\ (pending # {} /\ Idle /\ pending' # {} /\ ~Idle') =>
          /\ lastEvent'.kind = "message"
          /\ Recognized(lastEvent'.data)
          /\ Truthy(lastEvent'.data.enabled)]_vars

\* two selections capturing at once, the controller in Idle
C7_Witness ==
  /\ Cardinality(pending) = 2
  /\ Idle
  /\ lastEvent.kind = "click"

\* C8: the Overlay is mounted if and only if selectMode is true.
C8_OverlayIffSelectMode == overlayMounted <=> selectMode

\* Picking entered again after a selection had returned the controller to Idle
C8_Witness ==
  /\ Picking
  /\ clicks = 1
  /\ lastEvent.kind = "message"

\* C9: a message whose data is missing or whose type is not the
\* selection-mode tag changes neither the mode, the Overlay, the hover state,
\* the highlighted elements nor the posted messages.
C9_UnrecognizedMessageIgnored ==
  [][(lastEvent'.kind = "message" /\ ~Recognized(lastEvent'.data)) =>
       UNCHANGED <<mounted, listening, styleCount, toolbarRef, ignoreList,
                   selectMode, overlayMounted, lastHovered, highlighted,
                   pending, posted, clicks>>]_vars

\* a message of another type with enabled false, received while an element is
\* hovered, has left the controller in Picking
C9_Witness ==
  /\ lastEvent.kind = "message"
  /\ lastEvent.data.type = TOOLBAR_SELECT
  /\ lastEvent.data.enabled = "false"
  /\ Picking
  /\ lastHovered # Null
  /\ lastHovered \in highlighted

\* C10: after a selection-mode message the controller is in Picking if
\* enabled is true and in Idle if enabled is false, absent or another falsy
\* value; such a message received in Idle with a falsy enabled changes
\* nothing.
C10_ModeFollowsEnabled ==
  [][(lastEvent'.kind = "message" /\ Recognized(lastEvent'.data)) =>
       /\ lastEvent'.data.enabled = "true" => Picking'
       /\ lastEvent'.data.enabled \in {"false", "undefined", "0"} => Idle'
       /\ (Idle /\ lastEvent'.data.enabled \in {"false", "undefined", "0"}) =>
            UNCHANGED <<mounted, listening, styleCount, toolbarRef,
                        ignoreList, selectMode, overlayMounted, lastHovered,
                        highlighted, pending, posted, clicks>>]_vars

\* a command without an enabled field, received in Picking, has led to Idle
C10_Witness ==
  /\ lastEvent.kind = "message"
  /\ Recognized(lastEvent.data)
  /\ lastEvent.data.enabled = "undefined"
  /\ Idle
  /\ highlighted # {}


\* C11: the controller goes from Idle to Picking only by a selection-mode
\* message that the parent frame sent with a truthy enabled field; no message
\* of another sender, pointer event or capture completion enters Picking.
C11_OnlyParentEntersPicking ==
  [][(~selectMode /\ selectMode') =>
       /\ lastEvent'.kind = "message"
       /\ lastEvent'.source = "parent"
       /\ Recognized(lastEvent'.data)
       /\ Truthy(lastEvent'.data.enabled)]_vars

\* C12: once the toolbar has been mounted the document holds exactly one
\* style element with id vly-toolbar-style, whatever messages and further
\* mounts follow; in particular it is there whenever the controller is in
\* Picking, and a second injectHighlightStyle call adds nothing.
C12_ExactlyOneStyle ==
  /\ lastEvent.kind # "init" => styleCount = 1
  /\ Picking => styleCount = 1
  /\ injectHighlightStyle(injectHighlightStyle(styleCount))
       = injectHighlightStyle(styleCount)

\* the toolbar mounted a second time, after a Picking session of the first
\* instance that left its trace in the document
C12_Witness ==
  /\ lastEvent.kind = "mount"
  /\ highlighted # {}
  /\ styleCount = 1


\* C15: in Picking, after a pointer move, the elements carrying the highlight
\* class are exactly the stored hovered element (none if there is none), and
\* a hover notification the move made was for that element.
C15_MarkerIsHovered ==
  (Picking /\ lastEvent.kind = "mousemove") =>
    /\ highlighted \subseteq {lastHovered}
    /\ lastHovered # Null => lastHovered \in highlighted
    /\ lastEvent.onHover = 1 => lastHovered = lastEvent.el

\* C16: a click whose target is null or in ignoreList posts nothing, does not
\* call onSelect, leaves the controller in Picking with the Overlay mounted
\* and leaves the hovered element and the highlighted elements as they were.
C16_AbortedClickChangesNothing ==
  [][(/\ lastEvent'.kind = "click"
      /\ \/ lastEvent'.el = Null
         \/ Includes(ignoreList, lastEvent'.el)) =>
       /\ lastEvent'.onSelect = 0
       /\ Picking'
       /\ UNCHANGED <<selectMode, overlayMounted, lastHovered, highlighted,
                      pending, posted, clicks>>]_vars

\* a click that resolved to no element while an element was hovered
C16_Witness ==
  /\ lastEvent.kind = "click"
  /\ lastEvent.el = Null
  /\ lastEvent.onSelect = 0
  /\ Picking
  /\ lastHovered = "card"
  /\ "card" \in highlighted

\* C17: a pointer move whose target is null or in ignoreList leaves the
\* hovered element and the highlighted elements as they were and makes no
\* hover notification.
C17_AbortedMoveChangesNothing ==
  [][(/\ lastEvent'.kind = "mousemove"
      /\ \/ lastEvent'.el = Null
         \/ Includes(ignoreList, lastEvent'.el)) =>
       /\ lastEvent'.onHover = 0
       /\ UNCHANGED <<lastHovered, highlighted>>]_vars

\* a move that resolved to no element while an element was hovered
C17_Witness ==
  /\ lastEvent.kind = "mousemove"
  /\ lastEvent.el = Null
  /\ lastEvent.onHover = 0
  /\ lastHovered = "save"
  /\ highlighted = {"save"}

\* C18: after a pointer leave no element carries the highlight class, the
\* hovered-element reference is empty and onUnhover was called once.
C18_LeaveClearsHighlight ==
  lastEvent.kind = "mouseleave" =>
    /\ highlighted = {}
    /\ lastHovered = Null
    /\ lastEvent.onUnhover = 1

\* C19: while the mounted controller is in Idle no element carries the
\* highlight class.
C19_IdleHasNoHighlight == (mounted /\ Idle) => highlighted = {}

\* C20 as stated: the messages are posted in the order of their clicks, each
\* with the selector of the element of its own click.
C20_InClickOrder ==
  /\ \A i, j \in 1..Len(posted) : i < j => posted[i].click < posted[j].click
  /\ \A i \in 1..Len(posted) :
       posted[i].selector = getDomSelector(ElementAttrs[posted[i].el])

\* C20 as amended: a non-aborted click suspends one handleSelect call holding
\* the selector of the element the click resolved to; no later step changes
\* a suspended call; a posted message is the one of a suspended call that
\* ends, with that call's click and selector (whichever capture ends first).
C20_OwnSelectorAnyOrder ==
  [][/\ clicks' # clicks =>
          \E t \in pending' :
            /\ t \notin pending
            /\ pending' = pending \cup {t}
            /\ t.click = clicks'
            /\ t.el = lastEvent'.el
            /\ t.selector = getDomSelector(ElementAttrs[lastEvent'.el])
     /\ posted' # posted =>
          \E t \in pending :
            /\ pending' = pending \ {t}
            /\ Len(posted') = Len(posted) + 1
            /\ SubSeq(posted', 1, Len(posted)) = posted
            /\ posted'[Len(posted')].click = t.click
            /\ posted'[Len(posted')].selector = t.selector
     /\ (clicks' = clicks /\ posted' = posted) => pending' = pending]_vars

\* the second selection reported before the first, each with its own selector
C20_Witness ==
  /\ Len(posted) = 2
  /\ posted[1].click = 2
  /\ posted[1].selector = <<"#", "s", "a", "v", "e">>
  /\ posted[2].click = 1
  /\ posted[2].selector = <<"d", "i", "v", ".", "a", ".", "b">>


\* the whitespace-separated tokens of a class attribute, in order
RECURSIVE ClassTokens(_, _)
ClassTokens(s, cur) ==
  IF s = <<>> THEN (IF cur = <<>> THEN <<>> ELSE <<cur>>)
  ELSE IF IsSpace(Head(s))
       THEN (IF cur = <<>> THEN <<>> ELSE <<cur>>) \o ClassTokens(Tail(s), <<>>)
  ELSE ClassTokens(Tail(s), Append(cur, Head(s)))

\* each token preceded by "."
RECURSIVE DotJoined(_)
DotJoined(tokens) ==
  IF tokens = <<>> THEN <<>>
  ELSE <<".">> \o Head(tokens) \o DotJoined(Tail(tokens))

\* C13: for an element with no id and a non-empty class attribute (irregular
\* or only whitespace included) getDomSelector returns the lowercase tag name
\* followed by the class tokens, in order, each behind a "."; the result
\* never ends in "." and never contains "..".
C13_ClassSelectorHasNoEmptyToken ==
  (/\ domSelector # <<>>
   /\ domEl.id = <<>>
   /\ domEl.className # <<>>
   /\ IsString(domEl.className)) =>
    /\ domSelector = ToLowerCase(domEl.tagName)
                       \o DotJoined(ClassTokens(domEl.className, <<>>))
    /\ domSelector[Len(domSelector)] # "."
    /\ \A i \in 1..(Len(domSelector) - 1) :
         ~(domSelector[i] = "." /\ domSelector[i + 1] = ".")

\* C14: for an element with a non-empty id getDomSelector returns "#" and
\* the id, whatever the class attribute and tag name; a result that is not
\* of that form comes from an element whose id is empty.
C14_IdSelector ==
  domSelector # <<>> =>
    /\ domEl.id # <<>> => domSelector = <<"#">> \o domEl.id
    /\ Head(domSelector) # "#" => domEl.id = <<>>

C14_Witness ==
  /\ domSelector = <<"#", "x">>
  /\ domEl.className = <<"a", " ", "b">>
  /\ domEl.tagName = <<"S", "P", "A", "N">>

=============================================================================
